---- MODULE Spec2Model ----
(***************************************************************************)
(* ssh-agent-proxy: the proxy key ring (proxyKeyring) that fans one agent  *)
(* request out to the configured backend agents under one mutex, and the   *)
(* client sessions (one goroutine per accepted connection) that call it.   *)
(***************************************************************************)
EXTENDS Integers, Sequences, FiniteSets, TLC

(* ------------------------------ bounds --------------------------------- *)
NumSessions == 2
MaxSockets == 2

Session == 1..NumSessions
Addr == 1..MaxSockets

Keys == {"x", "y"}
Data == {"d"}
Passphrases == {"p", "q"}
ExtTypes == {"ext", "query"}

None == "-"
NoErr == "nil"
ErrExtensionUnsupported == "agent: extension unsupported"
ErrBackend == "backend error"

VARIABLES
    sockets,   \* proxyKeyring.sockets: the configured backend addresses
    mu,        \* proxyKeyring.mu: 0 when free, else the session holding it
    store,     \* per backend agent: the identities it holds, in its list order
    locked,    \* per backend agent: None, or the passphrase it is locked with
    pc,        \* per session: where its goroutine stands
    req,       \* per session: the request being served
    idx,       \* per session: position of `range r.sockets` in agents()
    conns,     \* per session: indexes whose connection is open
    defers,    \* per session: the deferred calls of agents(), in the order deferred
    merged,    \* per session: `merged` of List / Signers
    ret,       \* per session: what the method returns
    trace,     \* per session: the dials, calls and closes of the current pass
    lockHist   \* history: the Lock that has returned and is still in force

vars == <<sockets, mu, store, locked, pc, req, idx, conns, defers, merged, ret, trace,
          lockHist>>

(* ------------------------------ requests ------------------------------- *)
Request ==
    [op : {"List", "Signers", "RemoveAll"}, a : {None}, b : {None}]
    \cup [op : {"Add", "Remove"}, a : Keys, b : {None}]
    \cup [op : {"Sign"}, a : Keys, b : Data]
    \cup [op : {"Lock", "Unlock"}, a : Passphrases, b : {None}]
    \cup [op : {"Extension"}, a : ExtTypes, b : Data]

(* the requests about one key and one passphrase                           *)
FewRequests ==
    {r \in Request : r.a \in {None, "x", "p", "ext"}}

NoReq == [op |-> None, a |-> None, b |-> None]
Nil == <<>>
NoRet == [val |-> Nil, err |-> None]

(* ------------------------------ sequences ------------------------------ *)
Range(q) == {q[i] : i \in DOMAIN q}

RECURSIVE Without(_, _)
Without(q, k) ==
    IF q = <<>> THEN <<>>
    ELSE IF Head(q) = k THEN Without(Tail(q), k)
    ELSE <<Head(q)>> \o Without(Tail(q), k)

(* --------------------------- a backend agent --------------------------- *)
(* What agent b answers to request r, and the state it is left in.         *)
Answer(e, v, st, lk) == [err |-> e, val |-> v, store |-> st, locked |-> lk]

Failed(b) == Answer(ErrBackend, Nil, store[b], locked[b])

Signature(b, k, d) == [by |-> b, key |-> k, data |-> d]
Signer(b, k) == [agent |-> b, key |-> k]

BackendList(b) ==
    Answer(NoErr, IF locked[b] # None THEN <<>> ELSE store[b], store[b], locked[b])

BackendSigners(b) ==
    LET ids == BackendList(b).val
    IN  Answer(NoErr, [i \in DOMAIN ids |-> Signer(b, ids[i])], store[b], locked[b])

BackendAdd(b, k) ==
    IF locked[b] # None THEN Failed(b)
    ELSE Answer(NoErr, Nil,
                IF k \in Range(store[b]) THEN store[b] ELSE Append(store[b], k),
                locked[b])

BackendRemove(b, k) ==
    IF locked[b] # None \/ k \notin Range(store[b]) THEN Failed(b)
    ELSE Answer(NoErr, Nil, Without(store[b], k), locked[b])

BackendRemoveAll(b) ==
    IF locked[b] # None THEN Failed(b)
    ELSE Answer(NoErr, Nil, <<>>, locked[b])

BackendLock(b, p) ==
    IF locked[b] # None THEN Failed(b)
    ELSE Answer(NoErr, Nil, store[b], p)

BackendUnlock(b, p) ==
    IF locked[b] # p THEN Failed(b)
    ELSE Answer(NoErr, Nil, store[b], None)

BackendSign(b, k, d) ==
    IF locked[b] # None \/ k \notin Range(store[b]) THEN Failed(b)
    ELSE Answer(NoErr, <<Signature(b, k, d)>>, store[b], locked[b])

BackendCall(b, r) ==
    CASE r.op = "List" -> BackendList(b)
      [] r.op = "Signers" -> BackendSigners(b)
      [] r.op = "Add" -> BackendAdd(b, r.a)
      [] r.op = "Remove" -> BackendRemove(b, r.a)
      [] r.op = "RemoveAll" -> BackendRemoveAll(b)
      [] r.op = "Lock" -> BackendLock(b, r.a)
      [] r.op = "Unlock" -> BackendUnlock(b, r.a)
      [] r.op = "Sign" -> BackendSign(b, r.a, r.b)

(* ------------------- the loop bodies of the methods -------------------- *)
(* Each takes the answer of the backend call and `merged`, and says        *)
(* whether the range loop goes on (yield returns true), the new `merged`,  *)
(* and the value returned from inside the loop when it does not go on.     *)
Step(c, m, v) == [continue |-> c, merged |-> m, ret |-> v]

RemoveAll(ans, m) == Step(TRUE, m, NoRet)
(* faulty variant: Remove gives the backend's error back                   *)
RemoveFailsFast(ans, m) ==
    IF ans.err # NoErr THEN Step(FALSE, m, [val |-> Nil, err |-> ans.err])
    ELSE Step(TRUE, m, NoRet)

Remove(ans, m) == Step(TRUE, m, NoRet)
(* faulty variant: Lock stops at the first backend that refuses            *)
LockFailsFast(ans, m) ==
    IF ans.err # NoErr THEN Step(FALSE, m, [val |-> Nil, err |-> NoErr])
    ELSE Step(TRUE, m, NoRet)

Lock(ans, m) == Step(TRUE, m, NoRet)
Unlock(ans, m) == Step(TRUE, m, NoRet)

(* faulty variant: List puts the newest answer first                       *)
ListPrepend(ans, m) ==
    IF ans.err # NoErr THEN Step(TRUE, m, NoRet)
    ELSE Step(TRUE, ans.val \o m, NoRet)

List(ans, m) ==
    IF ans.err # NoErr THEN Step(TRUE, m, NoRet)
    ELSE Step(TRUE, m \o ans.val, NoRet)

Signers(ans, m) ==
    IF ans.err # NoErr THEN Step(TRUE, m, NoRet)
    ELSE Step(TRUE, m \o ans.val, NoRet)

(* faulty variant: Add goes on after a backend accepted                    *)
AddEverywhere(ans, m) == Step(TRUE, m, NoRet)

Add(ans, m) ==
    IF ans.err # NoErr THEN Step(TRUE, m, NoRet)
    ELSE Step(FALSE, m, [val |-> Nil, err |-> NoErr])

(* faulty variants: Sign returns whatever the first reachable backend answers; *)
(* Sign goes on after a backend signed                                     *)
SignUnchecked(ans, m) == Step(FALSE, m, [val |-> ans.val, err |-> NoErr])
SignEverywhere(ans, m) == Step(TRUE, m, NoRet)

Sign(ans, m) ==
    IF ans.err # NoErr THEN Step(TRUE, m, NoRet)
    ELSE Step(FALSE, m, [val |-> ans.val, err |-> NoErr])

Body(r, ans, m) ==
    CASE r.op = "List" -> List(ans, m)
      [] r.op = "Signers" -> Signers(ans, m)
      [] r.op = "Add" -> Add(ans, m)
      [] r.op = "Remove" -> Remove(ans, m)
      [] r.op = "RemoveAll" -> RemoveAll(ans, m)
      [] r.op = "Lock" -> Lock(ans, m)
      [] r.op = "Unlock" -> Unlock(ans, m)
      [] r.op = "Sign" -> Sign(ans, m)

(* faulty variants: Add, Sign report that no backend took the request      *)
AfterLoopAddRefused(r, m) ==
    IF r.op \in {"List", "Signers"} THEN [val |-> m, err |-> NoErr]
    ELSE IF r.op = "Add" THEN [val |-> Nil, err |-> ErrBackend]
    ELSE [val |-> Nil, err |-> NoErr]

AfterLoopNoSigner(r, m) ==
    IF r.op \in {"List", "Signers"} THEN [val |-> m, err |-> NoErr]
    ELSE IF r.op = "Sign" THEN [val |-> Nil, err |-> ErrBackend]
    ELSE [val |-> Nil, err |-> NoErr]

(* The return statement after the loop.                                    *)
AfterLoop(r, m) ==
    IF r.op \in {"List", "Signers"} THEN [val |-> m, err |-> NoErr]
    ELSE [val |-> Nil, err |-> NoErr]

(* The keyring does not support any extensions.                            *)
(* faulty variant: Extension answers success                               *)
ExtensionAccepted(extensionType, contents) == [val |-> Nil, err |-> NoErr]

Extension(extensionType, contents) == [val |-> Nil, err |-> ErrExtensionUnsupported]

(* ------------------------------- events -------------------------------- *)
Ev(kind, i, res) == [ev |-> kind, i |-> i, addr |-> sockets[i], res |-> res]

(* ------------------------------ history -------------------------------- *)
(* lockHist.held is the passphrase of a Lock that has returned to its      *)
(* caller and has not been followed by an Unlock with that passphrase;     *)
(* lockHist.under are the sessions whose request was issued since. The     *)
(* history is kept in the behaviours that start with it switched on.       *)
NoHist == [on |-> FALSE, held |-> None, under |-> {}]
Hist0 == [on |-> TRUE, held |-> None, under |-> {}]

Issued(h, s, r) ==
    IF ~h.on \/ h.held = None THEN h
    ELSE IF r.op = "Unlock" /\ r.a = h.held THEN [h EXCEPT !.held = None, !.under = {}]
    ELSE [h EXCEPT !.under = @ \cup {s}]

Returned(h, s, r) ==
    IF ~h.on THEN h
    ELSE [h EXCEPT !.held = IF r.op = "Lock" /\ @ = None THEN r.a ELSE @,
                   !.under = @ \ {s}]

(* -------------------------------- Init --------------------------------- *)
(* faulty variant: the first supplied address is left out                  *)
NewProxyKeyringSkipsFirst(s) ==
    /\ sockets = IF s = <<>> THEN s ELSE Tail(s)
    /\ mu = 0

NewProxyKeyring(s) ==
    /\ sockets = s
    /\ mu = 0

Constructed ==
    /\ \E n \in 0..MaxSockets : NewProxyKeyring([i \in 1..n |-> i])
    /\ store = [b \in Addr |-> <<>>]
    /\ locked = [b \in Addr |-> None]
    /\ pc = [s \in Session |-> "idle"]
    /\ req = [s \in Session |-> NoReq]
    /\ idx = [s \in Session |-> 0]
    /\ conns = [s \in Session |-> {}]
    /\ defers = [s \in Session |-> <<>>]
    /\ merged = [s \in Session |-> <<>>]
    /\ ret = [s \in Session |-> NoRet]
    /\ trace = [s \in Session |-> <<>>]

Init == Constructed /\ lockHist = NoHist
InitHist == Constructed /\ lockHist = Hist0

(* ------------------------------- actions ------------------------------- *)
(* ServeAgent reads a request and calls the method of the key ring. Every  *)
(* method but Extension ranges over agents(), which starts at r.mu.Lock(). *)
(* faulty variant: Extension ranges over r.agents() like the others        *)
RangesAgentsAlways(r) == TRUE

(* every method but Extension ranges over r.agents()                       *)
RangesAgents(r) == r.op # "Extension"

ServeFrom(s, Offered) ==
    /\ pc[s] = "idle"
    /\ \E r \in Offered :
        /\ req' = [req EXCEPT ![s] = r]
        /\ lockHist' = Issued(lockHist, s, r)
        /\ IF ~RangesAgents(r)
           THEN /\ pc' = [pc EXCEPT ![s] = "ret"]
                /\ ret' = [ret EXCEPT ![s] = Extension(r.a, r.b)]
           ELSE /\ pc' = [pc EXCEPT ![s] = "lock"]
                /\ ret' = [ret EXCEPT ![s] = NoRet]
    /\ UNCHANGED <<sockets, mu, store, locked, idx, conns, defers, merged, trace>>

Serve(s) == ServeFrom(s, Request)
ServeFew(s) == ServeFrom(s, FewRequests)

(* the deferred calls of agents(): r.mu.Unlock() and, per connection, its  *)
(* conn.Close(). When the function returns they run last deferred first.   *)
DeferredUnlock == [call |-> "unlock", i |-> 0]
DeferredClose(i) == [call |-> "close", i |-> i]

(* faulty variant: the deferred calls run in the order they were deferred  *)
RunsFirstDeferred(d) == 1

RunsNext(d) == Len(d)

RemoveAt(d, k) == SubSeq(d, 1, k - 1) \o SubSeq(d, k + 1, Len(d))

(* r.mu.Lock(); defer r.mu.Unlock()                                        *)
(* faulty variant: agents() without the mutex                              *)
MutexIgnored(s) == TRUE

MutexFree(s) == mu = 0

agentsLock(s) ==
    /\ pc[s] = "lock"
    /\ MutexFree(s)
    /\ mu' = s
    /\ defers' = [defers EXCEPT ![s] = <<DeferredUnlock>>]
    /\ idx' = [idx EXCEPT ![s] = 1]
    /\ pc' = [pc EXCEPT ![s] = "dial"]
    /\ UNCHANGED <<sockets, store, locked, req, conns, merged, ret, trace, lockHist>>

(* for _, socket := range r.sockets: the loop is over                      *)
agentsDone(s) ==
    /\ pc[s] = "dial"
    /\ idx[s] > Len(sockets)
    /\ ret' = [ret EXCEPT ![s] = AfterLoop(req[s], merged[s])]
    /\ merged' = [merged EXCEPT ![s] = <<>>]
    /\ pc' = [pc EXCEPT ![s] = "defer"]
    /\ UNCHANGED <<sockets, mu, store, locked, req, idx, conns, defers, trace, lockHist>>

(* net.Dial fails: logged, continue                                        *)
(* faulty variant: `break` for `continue` after a failed dial              *)
DialErrorAborts(i) == Len(sockets) + 1

AfterDialError(i) == i + 1

agentsDialError(s) ==
    /\ pc[s] = "dial"
    /\ idx[s] <= Len(sockets)
    /\ trace' = [trace EXCEPT ![s] = Append(@, Ev("dial", idx[s], "error"))]
    /\ idx' = [idx EXCEPT ![s] = AfterDialError(idx[s])]
    /\ UNCHANGED <<sockets, mu, store, locked, pc, req, conns, defers, merged, ret, lockHist>>

(* net.Dial succeeds: defer conn.Close(), then yield the client            *)
agentsDial(s) ==
    /\ pc[s] = "dial"
    /\ idx[s] <= Len(sockets)
    /\ trace' = [trace EXCEPT ![s] = Append(@, Ev("dial", idx[s], "ok"))]
    /\ conns' = [conns EXCEPT ![s] = @ \cup {idx[s]}]
    /\ defers' = [defers EXCEPT ![s] = Append(@, DeferredClose(idx[s]))]
    /\ pc' = [pc EXCEPT ![s] = "yield"]
    /\ UNCHANGED <<sockets, mu, store, locked, req, idx, merged, ret, lockHist>>

(* yield(agent.NewClient(conn)): the loop body of the method runs, with    *)
(* its one call on the backend.                                            *)
agentsYield(s) ==
    /\ pc[s] = "yield"
    /\ LET b == sockets[idx[s]] IN
       \E broken \in BOOLEAN :
         LET ans == IF broken THEN Failed(b) ELSE BackendCall(b, req[s])
             st == Body(req[s], ans, merged[s]) IN
           /\ store' = [store EXCEPT ![b] = ans.store]
           /\ locked' = [locked EXCEPT ![b] = ans.locked]
           /\ trace' = [trace EXCEPT ![s] = Append(@, Ev("call", idx[s], ans.err))]
           /\ merged' = [merged EXCEPT ![s] = st.merged]
           /\ IF st.continue
              THEN /\ idx' = [idx EXCEPT ![s] = @ + 1]
                   /\ pc' = [pc EXCEPT ![s] = "dial"]
                   /\ ret' = ret
              ELSE /\ idx' = idx
                   /\ pc' = [pc EXCEPT ![s] = "defer"]
                   /\ ret' = [ret EXCEPT ![s] = st.ret]
    /\ UNCHANGED <<sockets, mu, req, conns, defers, lockHist>>

(* faulty variant: the deferred close is lost                              *)
ConnCloseLost(open, i) == open

ConnClose(open, i) == open \ {i}

(* a deferred conn.Close() runs                                            *)
agentsClose(s) ==
    /\ pc[s] = "defer"
    /\ defers[s] # <<>>
    /\ LET k == RunsNext(defers[s])
           i == defers[s][k].i IN
         /\ defers[s][k].call = "close"
         /\ conns' = [conns EXCEPT ![s] = ConnClose(@, i)]
         /\ trace' = [trace EXCEPT ![s] = Append(@, Ev("close", i, "ok"))]
         /\ defers' = [defers EXCEPT ![s] = RemoveAt(@, k)]
    /\ UNCHANGED <<sockets, mu, store, locked, pc, req, idx, merged, ret, lockHist>>

(* faulty variant: the mutex is not released                               *)
MutexKept(s) == s

MutexReleased(s) == 0

(* the deferred r.mu.Unlock() runs, the method returns ret[s] and          *)
(* ServeAgent writes the reply and waits for the next request              *)
agentsUnlock(s) ==
    /\ pc[s] = "defer"
    /\ defers[s] # <<>>
    /\ defers[s][RunsNext(defers[s])].call = "unlock"
    /\ mu' = MutexReleased(s)
    /\ defers' = [defers EXCEPT ![s] = RemoveAt(@, RunsNext(@))]
    /\ pc' = [pc EXCEPT ![s] = "idle"]
    /\ req' = [req EXCEPT ![s] = NoReq]
    /\ ret' = [ret EXCEPT ![s] = NoRet]
    /\ idx' = [idx EXCEPT ![s] = 0]
    /\ trace' = [trace EXCEPT ![s] = <<>>]
    /\ lockHist' = Returned(lockHist, s, req[s])
    /\ UNCHANGED <<sockets, store, locked, conns, merged>>

(* Extension has returned: ServeAgent writes the reply and waits for the   *)
(* next request                                                            *)
Reply(s) ==
    /\ pc[s] = "ret"
    /\ pc' = [pc EXCEPT ![s] = "idle"]
    /\ req' = [req EXCEPT ![s] = NoReq]
    /\ ret' = [ret EXCEPT ![s] = NoRet]
    /\ lockHist' = Returned(lockHist, s, req[s])
    /\ UNCHANGED <<sockets, mu, store, locked, idx, conns, defers, merged, trace>>

Next ==
    \E s \in Session :
        \/ Serve(s)
        \/ agentsLock(s)
        \/ agentsDone(s)
        \/ agentsDialError(s)
        \/ agentsDial(s)
        \/ agentsYield(s)
        \/ agentsClose(s)
        \/ agentsUnlock(s)
        \/ Reply(s)

Spec == Init /\ [][Next]_vars

(* The same program with clients that send the requests about one key and  *)
(* one passphrase.                                                         *)
NextFew ==
    \E s \in Session :
        \/ ServeFew(s)
        \/ agentsLock(s)
        \/ agentsDone(s)
        \/ agentsDialError(s)
        \/ agentsDial(s)
        \/ agentsYield(s)
        \/ agentsClose(s)
        \/ agentsUnlock(s)
        \/ Reply(s)

(* ... where every dial and every backend call returns, a session that    *)
(* can run does run, and a session waiting for the mutex gets it when it   *)
(* is free again and again                                                 *)
PassStep(s) ==
    \/ agentsDone(s)
    \/ agentsDialError(s)
    \/ agentsDial(s)
    \/ agentsYield(s)
    \/ agentsClose(s)
    \/ agentsUnlock(s)

Fairness ==
    \A s \in Session : WF_vars(PassStep(s)) /\ SF_vars(agentsLock(s))

FairSpec == Init /\ [][NextFew]_vars /\ Fairness

(* ... with the history of Lock and Unlock kept                            *)
SpecHist == InitHist /\ [][NextFew]_vars

(* ====================== properties of the key ring ===================== *)
Idxs == 1..Len(sockets)

(* indexes of trace[s] with an event of this kind and result               *)
At(s, kind, res) ==
    {trace[s][p].i : p \in {q \in DOMAIN trace[s] :
                               trace[s][q].ev = kind /\ trace[s][q].res = res}}

DialErr(s) == At(s, "dial", "error")
DialOk(s) == At(s, "dial", "ok")
CallErr(s) == At(s, "call", ErrBackend)
CallOk(s) == At(s, "call", NoErr)
Closed(s) == At(s, "close", "ok")
Dialed(s) == DialErr(s) \cup DialOk(s)
Called(s) == CallErr(s) \cup CallOk(s)

(* the session is inside agents(): between r.mu.Lock() and r.mu.Unlock()   *)
InPass(s) == pc[s] \in {"dial", "yield", "defer"}
(* the session stands at net.Dial                                          *)
Dialing(s) == pc[s] = "dial" /\ idx[s] <= Len(sockets)
(* the pass has dialed, or is dialing, a backend and is not yet over       *)
Started(s) == InPass(s) /\ (Dialing(s) \/ Dialed(s) # {})
(* the range loop is over and the value the method returns is fixed        *)
Returning(s) == pc[s] = "defer"
(* ... and every deferred close has run: only r.mu.Unlock() is left        *)
Completing(s) == pc[s] = "defer" /\ defers[s] = <<DeferredUnlock>>

Min(S) == CHOOSE i \in S : \A j \in S : i <= j

(* C1: the fan-out passes of two different sessions never overlap: no two  *)
(* sessions have both started a pass (dialed a backend) that is not over.  *)
C1_PassesSerialized ==
    \A s, t \in Session : s # t => ~(Started(s) /\ Started(t))

C1_Witness ==
    \E s, t \in Session :
        /\ s # t
        /\ pc[s] = "yield" /\ DialOk(s) # {}
        /\ pc[t] = "lock" /\ req[t].op \in {"List", "Add", "Sign", "Lock"}

(* C2: List (and Signers) returns the concatenation, in configured order,  *)
(* of the answers of the backends that were reachable and answered without *)
(* error; the others contribute nothing; duplicates are kept; no error.    *)
Contribution(s, i) ==
    IF i \notin CallOk(s) THEN <<>>
    ELSE IF req[s].op = "List" THEN BackendList(sockets[i]).val
    ELSE BackendSigners(sockets[i]).val

RECURSIVE Concatenation(_, _)
Concatenation(s, n) ==
    IF n = 0 THEN <<>> ELSE Concatenation(s, n - 1) \o Contribution(s, n)

C2_ListConcatenates ==
    \A s \in Session :
        (Returning(s) /\ req[s].op \in {"List", "Signers"}) =>
            /\ ret[s].err = NoErr
            /\ ret[s].val = Concatenation(s, Len(sockets))

C2_Witness ==
    \E s \in Session :
        /\ Returning(s) /\ req[s].op = "List"
        /\ CallOk(s) = {1, 2}
        /\ Len(ret[s].val) = 2
        /\ ret[s].val = store[sockets[1]] \o store[sockets[2]]
        /\ ret[s].val[1] # ret[s].val[2]

(* C3: Sign returns the signature of the lowest-index backend that was     *)
(* reachable and whose sign call succeeded: every backend before it was    *)
(* tried and failed; with no such backend every backend was tried.         *)
C3_SignFirstSuccess ==
    \A s \in Session :
        (Returning(s) /\ req[s].op = "Sign") =>
            IF CallOk(s) = {}
            THEN /\ ret[s].val = Nil
                 /\ DialErr(s) \cup CallErr(s) = Idxs
            ELSE LET i == Min(CallOk(s)) IN
                 /\ ret[s].val = <<Signature(sockets[i], req[s].a, req[s].b)>>
                 /\ ret[s].err = NoErr
                 /\ \A j \in 1..(i - 1) : j \in DialErr(s) \cup CallErr(s)

C3_Witness ==
    \E s \in Session :
        /\ Returning(s) /\ req[s].op = "Sign"
        /\ 1 \in DialErr(s) \cup CallErr(s)
        /\ 2 \in CallOk(s)
        /\ ret[s].val = <<Signature(sockets[2], req[s].a, req[s].b)>>

(* C4: after the first backend whose sign call succeeded, a Sign dials and *)
(* calls no further backend.                                               *)
C4_SignStops ==
    \A s \in Session :
        (InPass(s) /\ req[s].op = "Sign") =>
            \A i \in CallOk(s) :
                /\ pc[s] = "defer"
                /\ \A j \in Dialed(s) \cup Called(s) : j <= i

C4_Witness ==
    \E s \in Session :
        /\ Completing(s) /\ req[s].op = "Sign"
        /\ CallOk(s) = {1}
        /\ Len(sockets) = 2
        /\ 2 \notin Dialed(s)

(* C5: Add calls the backends in configured order and stops at the first   *)
(* that accepts: every backend before it was unreachable or rejected, none *)
(* after it is dialed or called, and at most one backend accepted.         *)
InOrder(s) ==
    \A p, q \in DOMAIN trace[s] :
        (p < q /\ trace[s][p].ev = "dial" /\ trace[s][q].ev = "dial")
            => trace[s][p].i < trace[s][q].i

C5_AddStops ==
    \A s \in Session :
        (InPass(s) /\ req[s].op = "Add") =>
            /\ InOrder(s)
            /\ Cardinality(CallOk(s)) <= 1
            /\ \A i \in CallOk(s) :
                /\ pc[s] = "defer"
                /\ \A j \in Dialed(s) \cup Called(s) : j <= i
                /\ \A j \in 1..(i - 1) : j \in DialErr(s) \cup CallErr(s)
                /\ req[s].a \in Range(store[sockets[i]])

C5_Witness ==
    \E s \in Session :
        /\ Completing(s) /\ req[s].op = "Add"
        /\ CallOk(s) = {1}
        /\ Len(sockets) = 2
        /\ 2 \notin Dialed(s)
        /\ req[s].a \in Range(store[sockets[1]])
        /\ req[s].a \notin Range(store[sockets[2]])

DialFails(s) ==
    /\ Dialing(s)
    /\ Len(trace'[s]) = Len(trace[s]) + 1
    /\ trace'[s][Len(trace'[s])] = Ev("dial", idx[s], "error")

C7_Skipped ==
    \A s \in Session :
        \A i \in DialErr(s) :
            /\ InPass(s) /\ idx[s] > i
            /\ (Returning(s) /\ i < Len(sockets)) => i + 1 \in Dialed(s)

C7_DialErrorSkipped ==
    /\ []C7_Skipped
    /\ [][\A s \in Session :
            DialFails(s) =>
                /\ pc'[s] = "dial" /\ idx'[s] = idx[s] + 1
                /\ UNCHANGED <<sockets, mu, store, locked, req, conns, defers, merged, ret>>
         ]_vars

C7_Witness ==
    \E s \in Session :
        /\ Completing(s) /\ req[s].op = "List"
        /\ DialErr(s) = {1} /\ CallOk(s) = {2}
        /\ ret[s].val = store[sockets[2]] /\ ret[s].val # <<>>

(* C8: every connection opened during a pass is closed no later than when  *)
(* the pass completes, on every exit path: outside a pass, and when only   *)
(* the unlock is left to run, the session has no open connection.          *)
C8_NoLeak ==
    \A s \in Session : (~InPass(s) \/ Completing(s)) => conns[s] = {}

C8_Witness ==
    \E s \in Session :
        /\ Completing(s) /\ req[s].op = "Sign"
        /\ DialOk(s) = {1, 2} /\ CallErr(s) = {1} /\ CallOk(s) = {2}
        /\ Closed(s) = {1, 2}
        /\ conns[s] = {}

(* C9: in every reachable state at most one backend connection opened by   *)
(* the process is open.                                                    *)
OpenConns == {<<s, i>> \in Session \X (1..MaxSockets) : i \in conns[s]}

C9_OneConnection == Cardinality(OpenConns) <= 1

(* C10: Extension always reports the "unsupported extension" error with no *)
(* result, whatever the backends, and contacts no backend.                 *)
C10_ExtensionUnsupported ==
    \A s \in Session :
        req[s].op = "Extension" =>
            /\ pc[s] = "ret"
            /\ ret[s] = [val |-> Nil, err |-> ErrExtensionUnsupported]
            /\ trace[s] = <<>>
            /\ conns[s] = {}
            /\ mu # s

C10_Witness ==
    \E s, t \in Session :
        /\ req[s].op = "Extension" /\ pc[s] = "ret"
        /\ ret[s].err = ErrExtensionUnsupported
        /\ Len(sockets) = 2
        /\ pc[t] = "yield"

(* C11: after Lock(passphrase) has returned and until an Unlock with the   *)
(* same passphrase, Sign and Remove issued through the key ring return an  *)
(* error and List returns an empty list. Stated for the requests issued    *)
(* after the Lock returned, with at least one backend configured and even  *)
(* when every configured backend is locked with that passphrase.           *)
AllLocked ==
    /\ lockHist.held # None
    /\ Len(sockets) >= 1
    /\ \A i \in Idxs : locked[sockets[i]] = lockHist.held

C11_LockedFails ==
    \A s \in Session :
        (Returning(s) /\ s \in lockHist.under /\ AllLocked) =>
            /\ req[s].op \in {"Sign", "Remove"} => ret[s].err # NoErr
            /\ req[s].op = "List" => ret[s].val = <<>>

(* the indexes of the events of one kind, in the order they happened       *)
RECURSIVE IndexesOf(_, _)
IndexesOf(q, kind) ==
    IF q = <<>> THEN <<>>
    ELSE IF Head(q).ev = kind THEN <<Head(q).i>> \o IndexesOf(Tail(q), kind)
    ELSE IndexesOf(Tail(q), kind)

RECURSIVE Keep(_, _)
Keep(q, S) ==
    IF q = <<>> THEN <<>>
    ELSE IF Head(q) \in S THEN <<Head(q)>> \o Keep(Tail(q), S)
    ELSE Keep(Tail(q), S)

(* every configured backend was dialed once, in configured order, and the  *)
(* method was called once on each backend whose dial succeeded             *)
TriedAllOnce(s) ==
    /\ IndexesOf(trace[s], "dial") = [i \in Idxs |-> i]
    /\ IndexesOf(trace[s], "call") = Keep([i \in Idxs |-> i], DialOk(s))

(* C12: when no backend accepts the identity, Add still returns no error,  *)
(* having tried every configured backend once in order, and it leaves      *)
(* every backend as it was.                                                *)
C12_AddRefusedEverywhere ==
    \A s \in Session :
        (Returning(s) /\ req[s].op = "Add" /\ CallOk(s) = {}) =>
            /\ ret[s] = [val |-> Nil, err |-> NoErr]
            /\ TriedAllOnce(s)

C12_AddNoTaker ==
    /\ []C12_AddRefusedEverywhere
    /\ [][\A s \in Session :
            (InPass(s) /\ InPass(s)' /\ req[s].op = "Add" /\ CallOk(s)' = {})
                => UNCHANGED <<store, locked>>
         ]_vars

C12_Witness ==
    \E s \in Session :
        /\ Completing(s) /\ req[s].op = "Add"
        /\ DialErr(s) = {1} /\ CallErr(s) = {2}
        /\ ret[s].err = NoErr
        /\ \A b \in Addr : req[s].a \notin Range(store[b])

Exhaustive == {"Remove", "RemoveAll", "Lock", "Unlock", "List", "Signers"}

C15_NoEarlyExit ==
    \A s \in Session :
        (Returning(s) /\ req[s].op \in Exhaustive) => TriedAllOnce(s)

C15_Witness ==
    \E s \in Session :
        /\ Completing(s) /\ req[s].op = "Lock"
        /\ CallErr(s) = {1} /\ CallOk(s) = {2}
        /\ IndexesOf(trace[s], "call") = <<1, 2>>

(* C14: every dial, backend call and connection close of a pass happens    *)
(* while the calling session holds the mutex, which is taken before the    *)
(* first dial and released after the last close, also on the early exit of *)
(* Add and Sign; whenever the mutex is free no backend connection is open. *)
C14_HeldThroughout ==
    /\ \A s \in Session : (InPass(s) \/ conns[s] # {}) => mu = s
    /\ mu = 0 => \A s \in Session : conns[s] = {}

C14_UnderLock ==
    /\ []C14_HeldThroughout
    /\ [][\A s \in Session :
            (trace'[s] # trace[s] /\ trace'[s] # <<>>) => (mu = s /\ mu' = s)
         ]_vars

C14_Witness ==
    \E s \in Session :
        /\ Returning(s) /\ req[s].op = "Add"
        /\ CallErr(s) = {1} /\ CallOk(s) = {2}
        /\ Closed(s) = {2} /\ conns[s] = {1}
        /\ mu = s

(* C16: a hung backend stalls every other client: as long as a dial or a   *)
(* backend call of one session's pass has not returned, the mutex stays    *)
(* with that session and no other session's List, Signers, Add, Sign,      *)
(* Remove, RemoveAll, Lock or Unlock dials a backend or returns.           *)
Blocked(s) == Dialing(s) \/ pc[s] = "yield"

C16_Waiting ==
    \A s, t \in Session :
        (Blocked(s) /\ t # s) => (mu = s /\ ~InPass(t) /\ trace[t] = <<>>)

C16_HungStalls ==
    /\ []C16_Waiting
    /\ [][\A s, t \in Session :
            (Blocked(s) /\ Blocked(s)' /\ trace'[s] = trace[s] /\ t # s) =>
                /\ mu' = s
                /\ pc[t] = "lock" => pc'[t] = "lock"
         ]_vars

C16_Witness ==
    \E s, t \in Session :
        /\ s # t
        /\ Dialing(s) /\ idx[s] = 2 /\ mu = s
        /\ pc[t] = "lock" /\ req[t].op = "RemoveAll"

(* C17: if every dial and every backend call returns and the mutex is      *)
(* acquired fairly, every operation returns to its caller and the mutex is *)
(* free again; no session waits for the mutex forever, and none asks for   *)
(* the mutex while holding it.                                             *)
C17_NoSelfDeadlock ==
    \A s \in Session :
        pc[s] = "lock" =>
            /\ mu # s
            /\ mu # 0 => (InPass(mu) /\ ENABLED PassStep(mu))

C17_Terminates ==
    /\ []C17_NoSelfDeadlock
    /\ \A s \in Session : (pc[s] = "lock") ~> (pc[s] = "idle")
    /\ (mu # 0) ~> (mu = 0)

C17_Witness ==
    \E s, t \in Session :
        /\ s # t
        /\ pc[s] = "lock" /\ pc[t] = "defer" /\ mu = t
        /\ req[s].op = "Sign" /\ req[t].op = "Add"

(* C18: operations of different sessions are atomic with respect to each   *)
(* other: a backend's key store or lock changes only in a backend call of  *)
(* the session that holds the mutex, one backend at a time and with no     *)
(* other session's pass or result touched; during a List, Signers or Sign  *)
(* pass no backend changes; and a finished List or Signers returns the     *)
(* contents the contributing backends have at that one moment, never a mix *)
(* of before and after another session's RemoveAll, Remove or Add.         *)
Reads == {"List", "Signers", "Sign"}

Backend(b) == <<store[b], locked[b]>>

C18_OneMoment ==
    \A s \in Session :
        (Completing(s) /\ req[s].op \in {"List", "Signers"}) =>
            /\ mu = s
            /\ ret[s].val = Concatenation(s, Len(sockets))
            /\ \A t \in Session \ {s} : ~InPass(t)

C18_Atomic ==
    /\ []C18_OneMoment
    /\ [][\A b \in Addr :
            Backend(b)' # Backend(b) =>
                \E s \in Session :
                    /\ mu = s /\ mu' = s
                    /\ pc[s] = "yield" /\ sockets[idx[s]] = b
                    /\ req[s].op \notin Reads
                    /\ \A c \in Addr \ {b} : Backend(c)' = Backend(c)
                    /\ \A t \in Session \ {s} :
                        trace'[t] = trace[t] /\ ret'[t] = ret[t]
         ]_vars
    /\ [][\A s \in Session :
            (mu = s /\ mu' = s /\ req[s].op \in Reads) =>
                UNCHANGED <<store, locked>>
         ]_vars

C18_Witness ==
    \E s, t \in Session :
        /\ s # t
        /\ Completing(s) /\ req[s].op = "List"
        /\ CallOk(s) = {1, 2}
        /\ store[sockets[1]] # <<>> /\ store[sockets[2]] # <<>>
        /\ pc[t] = "lock" /\ req[t].op = "RemoveAll"

(* C19: Extension never takes the mutex: a session that asked for an       *)
(* Extension is one step of its own from having returned, that step is     *)
(* enabled whoever holds the mutex (a pass at a dial or call that never    *)
(* returns included), and neither asking nor returning changes the mutex,  *)
(* a connection or a backend.                                              *)
C19_ReadyToReturn ==
    \A s \in Session :
        req[s].op = "Extension" =>
            /\ pc[s] \notin {"lock", "dial", "yield", "defer"}
            /\ defers[s] = <<>>
            /\ ENABLED Reply(s)

C19_ExtensionLockFree ==
    /\ []C19_ReadyToReturn
    /\ [][\A s \in Session :
            /\ (req[s] = NoReq /\ req'[s].op = "Extension") =>
                    (pc'[s] = "ret" /\ UNCHANGED <<mu, conns, store, locked>>)
            /\ (req[s].op = "Extension" /\ pc'[s] # pc[s]) =>
                    /\ pc'[s] = "idle"
                    /\ ret[s].err = ErrExtensionUnsupported
                    /\ UNCHANGED <<mu, conns, store, locked>>
         ]_vars

C19_Witness ==
    \E s, t \in Session :
        /\ req[s].op = "Extension" /\ req[s].a = "query"
        /\ pc[s] = "ret"
        /\ mu = t /\ Dialing(t) /\ idx[t] = 2
        /\ ENABLED Reply(s)

(* C20: the list of backend addresses is the list supplied at construction *)
(* and no step of any session changes it: nothing is added, removed or     *)
(* reordered, whatever the outcome of the operation.                       *)
Supplied(n) == [i \in 1..n |-> i]

C20_AsSupplied ==
    /\ Len(sockets) \in 0..MaxSockets
    /\ sockets = Supplied(Len(sockets))

C20_SocketsReadOnly ==
    /\ []C20_AsSupplied
    /\ [][sockets' = sockets]_vars

C20_Witness ==
    /\ sockets = <<1, 2>>
    /\ store[1] # <<>>
    /\ \E s \in Session :
        /\ Returning(s) /\ req[s].op = "Sign"
        /\ DialErr(s) = {1} /\ CallErr(s) = {2}

====
